---- MODULE Spec2Model ----
(***************************************************************************)
(* Model of services/static-intel/src/main.rs (RUKH Static Intelligence    *)
(* Service): the startup reporter `main` and the serde-derived codec of    *)
(* the `Vulnerability` record.                                             *)
(*                                                                         *)
(* Two specifications share the module:                                    *)
(*   Spec / FairSpec  - runs of the process (main), observed at the        *)
(*                      granularity of its println! statements;            *)
(*   CodecSpec        - the derived Serialize / Deserialize of             *)
(*                      Vulnerability, applied to bounded inputs.          *)
(***************************************************************************)
EXTENDS Naturals, Sequences, FiniteSets, TLC

VARIABLES
    args,     \* args[r]   : the command line of run r (never read by main)
    env,      \* env[r]    : the environment variables set for run r
    fs,       \* fs[r]     : the files present when run r starts
    sink,     \* sink[r]   : how many writes run r's standard output accepts
    pc,       \* pc[r]     : the source line run r executes next
    stdout,   \* stdout[r] : the text written to standard output so far
    stderr,   \* stderr[r] : reports written to standard error, with origin
    status,   \* status[r] : "running", or the exit status
    io,       \* io[r]     : the I/O operations main has issued, in order
    heap,     \* heap[r]   : the Vulnerability values run r has constructed
    stage,    \* codec: "none" | "value" | "wire" | "decoded"
    vuln,     \* codec: the Vulnerability being encoded
    wire,     \* codec: the structured representation
    edits,    \* codec: how often the representation was altered in transit
    decoded   \* codec: the result of decoding

procVars  == <<args, env, fs, sink, pc, stdout, stderr, status, io, heap>>
codecVars == <<stage, vuln, wire, edits, decoded>>
vars      == <<args, env, fs, sink, pc, stdout, stderr, status, io, heap,
               stage, vuln, wire, edits, decoded>>

(***************************************************************************)
(* Bounds                                                                  *)
(***************************************************************************)
MaxArgs  == 1     \* longest command line considered
MaxLen   == 1     \* longest field text considered
MaxEdits == 1     \* alterations of a representation in transit

(***************************************************************************)
(* The process: fn main(), lines 15-19                                     *)
(***************************************************************************)
Runs == {"a", "b"}          \* two invocations, compared with each other

ArgWords == {"--help"}
EnvVars  == {"RUKH_CONFIG"}
Files    == {"rukh.toml"}

RECURSIVE ArgVectors(_)
ArgVectors(n) ==
    IF n = 0 THEN {<<>>}
    ELSE ArgVectors(n - 1) \cup
         {Append(v, w) : v \in {x \in ArgVectors(n - 1) : Len(x) = n - 1}, w \in ArgWords}

\* The three string literals of main.
NameLine   == "RUKH Static Intelligence Service v0.1.0"
AuthorLine == "Author: Volodymyr Stetsenko (Zero2Auditor)"
ReadyLine  == "Service ready. Waiting for analysis jobs..."

NLines == Cardinality({"L16", "L17", "L18"})   \* println! statements in main

ExitSuccess == "0"      \* main returns ()
ExitPanic   == "101"    \* the runtime's status for a panicking main

NoVulnerability == {}

\* One write operation on standard output, as recorded in io.
WriteOp(ok) == [op |-> "write", target |-> "stdout", ok |-> ok]

\* The runtime's report of a panic (not text of the program).
PanicReport == [origin |-> "runtime", msg |-> "failed printing to stdout"]

\* Whether the next write of run r to its standard output succeeds.
WriteSucceeds(r) == Len(io[r]) < sink[r]

\* Println with the write's result discarded (let _ = writeln!(..)): a
\* failed write goes unnoticed and main carries on.
PrintlnIgnoringError(r, at, text, next) ==
    /\ pc[r] = at
    /\ IF WriteSucceeds(r)
       THEN stdout' = [stdout EXCEPT ![r] = @ \o text \o "\n"]
       ELSE UNCHANGED stdout
    /\ io' = [io EXCEPT ![r] = Append(@, WriteOp(WriteSucceeds(r)))]
    /\ pc' = [pc EXCEPT ![r] = next]
    /\ UNCHANGED <<stderr, status>>
    /\ UNCHANGED <<args, env, fs, sink, heap>>
    /\ UNCHANGED codecVars

\* println!(text) at line `at`, continuing at line `next`: the text and a
\* line break are written; if the write fails, println! panics, the
\* runtime reports the panic and the process ends there.
Println(r, at, text, next) ==
    /\ pc[r] = at
    /\ IF WriteSucceeds(r)
       THEN /\ stdout' = [stdout EXCEPT ![r] = @ \o text \o "\n"]
            /\ io' = [io EXCEPT ![r] = Append(@, WriteOp(TRUE))]
            /\ pc' = [pc EXCEPT ![r] = next]
            /\ UNCHANGED <<stderr, status>>
       ELSE /\ io' = [io EXCEPT ![r] = Append(@, WriteOp(FALSE))]
            /\ stderr' = [stderr EXCEPT ![r] = Append(@, PanicReport)]
            /\ status' = [status EXCEPT ![r] = ExitPanic]
            /\ pc' = [pc EXCEPT ![r] = "exited"]
            /\ UNCHANGED stdout
    /\ UNCHANGED <<args, env, fs, sink, heap>>
    /\ UNCHANGED codecVars

\* Variants of the statements of main, each one slip away from the source.
L16RejectingArgs(r) ==
    IF args[r] # <<>>
    THEN /\ pc[r] = "L16"
         /\ status' = [status EXCEPT ![r] = "2"]
         /\ pc' = [pc EXCEPT ![r] = "exited"]
         /\ UNCHANGED <<args, env, fs, sink, stdout, stderr, io, heap>>
         /\ UNCHANGED codecVars
    ELSE Println(r, "L16", NameLine, "L17")

L16ReadingConfig(r) ==
    IF EnvVars \subseteq env[r]
    THEN /\ pc[r] = "L16"
         /\ io' = [io EXCEPT ![r] = Append(@, [op |-> "read", target |-> "rukh.toml", ok |-> Files \subseteq fs[r]])]
         /\ IF Files \subseteq fs[r]
            THEN /\ pc' = [pc EXCEPT ![r] = "L17"]
                 /\ UNCHANGED status
            ELSE /\ pc' = [pc EXCEPT ![r] = "exited"]
                 /\ status' = [status EXCEPT ![r] = "1"]
         /\ UNCHANGED <<args, env, fs, sink, stdout, stderr, heap>>
         /\ UNCHANGED codecVars
    ELSE Println(r, "L16", NameLine, "L17")

L17ReadyFirst(r) == Println(r, "L17", ReadyLine, "L18")

L18WithoutLineBreak(r) ==
    /\ pc[r] = "L18"
    /\ WriteSucceeds(r)
    /\ stdout' = [stdout EXCEPT ![r] = @ \o ReadyLine]
    /\ io' = [io EXCEPT ![r] = Append(@, WriteOp(TRUE))]
    /\ pc' = [pc EXCEPT ![r] = "L19"]
    /\ UNCHANGED <<args, env, fs, sink, stderr, status, heap>>
    /\ UNCHANGED codecVars

L16(r) == Println(r, "L16", NameLine, "L17")
L17(r) == Println(r, "L17", AuthorLine, "L18")
L18(r) == Println(r, "L18", ReadyLine, "L19")

L19WaitingForJobs(r) ==
    /\ pc[r] = "L19"
    /\ pc' = [pc EXCEPT ![r] = "waiting"]
    /\ UNCHANGED <<args, env, fs, sink, stdout, stderr, status, io, heap>>
    /\ UNCHANGED codecVars

L19WithSample(r) ==
    /\ pc[r] = "L19"
    /\ heap' = [heap EXCEPT ![r] = @ \cup {[severity |-> "", title |-> "", description |-> ""]}]
    /\ status' = [status EXCEPT ![r] = ExitSuccess]
    /\ pc' = [pc EXCEPT ![r] = "exited"]
    /\ UNCHANGED <<args, env, fs, sink, stdout, stderr, io>>
    /\ UNCHANGED codecVars

\* The closing brace of main: the process exits with success.
L19(r) ==
    /\ pc[r] = "L19"
    /\ status' = [status EXCEPT ![r] = ExitSuccess]
    /\ pc' = [pc EXCEPT ![r] = "exited"]
    /\ UNCHANGED <<args, env, fs, sink, stdout, stderr, io, heap>>
    /\ UNCHANGED codecVars

main(r) == L16(r) \/ L17(r) \/ L18(r) \/ L19(r)

Init ==
    /\ args \in [Runs -> ArgVectors(MaxArgs)]
    /\ env \in [Runs -> SUBSET EnvVars]
    /\ fs \in [Runs -> SUBSET Files]
    /\ sink \in [Runs -> 0..NLines]
    /\ pc = [r \in Runs |-> "L16"]
    /\ stdout = [r \in Runs |-> ""]
    /\ stderr = [r \in Runs |-> <<>>]
    /\ status = [r \in Runs |-> "running"]
    /\ io = [r \in Runs |-> <<>>]
    /\ heap = [r \in Runs |-> NoVulnerability]
    /\ stage = "none"
    /\ vuln = <<>>
    /\ wire = <<>>
    /\ edits = 0
    /\ decoded = <<>>

Next == \E r \in Runs : main(r)

Spec == Init /\ [][Next]_vars

\* A started process keeps executing until it exits.
FairSpec == Spec /\ \A r \in Runs : WF_vars(main(r))

(***************************************************************************)
(* The codec: #[derive(Serialize, Deserialize)] struct Vulnerability,      *)
(* lines 8-13, over the structured form of a record (named entries)        *)
(***************************************************************************)
Chars == {"a", "\"", "\n"}     \* a letter, a quote, a line break

RECURSIVE Texts(_)
Texts(n) ==
    IF n = 0 THEN {""}
    ELSE Texts(n - 1) \cup {s \o c : s \in Texts(n - 1), c \in Chars}

\* struct Vulnerability { severity: String, title: String, description: String }
FieldNames == <<"severity", "title", "description">>
Vulnerability == [severity : Texts(MaxLen), title : Texts(MaxLen), description : Texts(MaxLen)]

\* Values of the structured form: text, and two that are not text.
Str(s)  == [kind |-> "str", val |-> s]
NonText == {[kind |-> "null", val |-> ""], [kind |-> "num", val |-> "0"]}

Ok(x)   == [ok |-> TRUE, value |-> {x}, err |-> ""]
Err(e)  == [ok |-> FALSE, value |-> {}, err |-> e]

\* One serialize_field call of the derived Serialize: the field's name and
\* its text, appended to the entries written so far.
SerializeField(entries, key, text) == Append(entries, [key |-> key, value |-> Str(text)])

\* Serialize with the texts of title and description exchanged.
SerializeCrossed(v) ==
    Ok(SerializeField(
         SerializeField(
           SerializeField(<<>>, FieldNames[1], v.severity),
           FieldNames[2], v.description),
         FieldNames[3], v.title))

\* The derived Serialize::serialize: the three fields in declaration order;
\* no field is inspected, so no value is rejected.
Serialize(v) ==
    Ok(SerializeField(
         SerializeField(
           SerializeField(<<>>, FieldNames[1], v.severity),
           FieldNames[2], v.title),
         FieldNames[3], v.description))

\* Build with #[serde(default)] on the fields: an absent field is empty text.
BuildDefaulting(acc) ==
    Ok([severity    |-> IF acc.severity = {} THEN "" ELSE CHOOSE s \in acc.severity : TRUE,
        title       |-> IF acc.title = {} THEN "" ELSE CHOOSE s \in acc.title : TRUE,
        description |-> IF acc.description = {} THEN "" ELSE CHOOSE s \in acc.description : TRUE])

\* The derived visitor's final step: every field must have been seen.
Build(acc) ==
    IF acc.severity = {} THEN Err("missing field severity")
    ELSE IF acc.title = {} THEN Err("missing field title")
    ELSE IF acc.description = {} THEN Err("missing field description")
    ELSE Ok([severity    |-> CHOOSE s \in acc.severity : TRUE,
             title       |-> CHOOSE s \in acc.title : TRUE,
             description |-> CHOOSE s \in acc.description : TRUE])

\* The derived visitor's loop over the entries (visit_map): an unknown key is
\* skipped, a known key seen twice is an error, a String field takes a text
\* value only.
RECURSIVE VisitMap(_, _, _)
VisitMap(entries, i, acc) ==
    IF i > Len(entries) THEN Build(acc)
    ELSE LET e == entries[i] IN
         IF e.key \in {FieldNames[k] : k \in DOMAIN FieldNames}
         THEN IF acc[e.key] # {} THEN Err("duplicate field")
              ELSE IF e.value.kind # "str" THEN Err("invalid type")
              ELSE VisitMap(entries, i + 1, [acc EXCEPT ![e.key] = {e.value.val}])
         ELSE VisitMap(entries, i + 1, acc)

\* Deserialize followed by a check of the severity: an empty one is refused.
DeserializeValidating(entries) ==
    LET out == VisitMap(entries, 1, [severity |-> {}, title |-> {}, description |-> {}])
    IN  IF out.ok /\ (CHOOSE v \in out.value : TRUE).severity = ""
        THEN Err("invalid severity")
        ELSE out

\* The derived Deserialize::deserialize.
Deserialize(entries) ==
    VisitMap(entries, 1, [severity |-> {}, title |-> {}, description |-> {}])

\* Encoding a value.
Encode ==
    /\ stage = "value"
    /\ LET out == Serialize(vuln) IN
         IF out.ok
         THEN /\ wire' = (CHOOSE w \in out.value : TRUE)
              /\ stage' = "wire"
         ELSE /\ wire' = wire
              /\ stage' = "rejected"
    /\ UNCHANGED <<vuln, edits, decoded>>
    /\ UNCHANGED procVars

\* Representations that do not come from Serialize: the producer of the
\* input drops an entry, gives one a value that is not text, reorders two,
\* repeats one or adds an entry the record does not have.
Edited(w) ==
    /\ stage = "wire"
    /\ edits < MaxEdits
    /\ wire' = w
    /\ edits' = edits + 1
    /\ UNCHANGED <<stage, vuln, decoded>>
    /\ UNCHANGED procVars

DropEntry ==
    \E i \in DOMAIN wire :
        Edited([k \in 1..(Len(wire) - 1) |-> IF k < i THEN wire[k] ELSE wire[k + 1]])

RetypeEntry ==
    \E i \in DOMAIN wire, nv \in NonText :
        Edited([wire EXCEPT ![i].value = nv])

SwapEntries ==
    \E i \in DOMAIN wire, j \in DOMAIN wire :
        /\ i < j
        /\ Edited([wire EXCEPT ![i] = wire[j], ![j] = wire[i]])

RepeatEntry ==
    \E i \in DOMAIN wire : Edited(Append(wire, wire[i]))

AddUnknown ==
    \E x \in {Str("")} \cup NonText : Edited(Append(wire, [key |-> "cwe", value |-> x]))

\* Decoding a representation.
Decode ==
    /\ stage = "wire"
    /\ decoded' = Deserialize(wire)
    /\ stage' = "decoded"
    /\ UNCHANGED <<vuln, wire, edits>>
    /\ UNCHANGED procVars

CodecInit ==
    /\ stage = "value"
    /\ vuln \in Vulnerability
    /\ wire = <<>>
    /\ edits = 0
    /\ decoded = Err("")
    /\ args = <<>> /\ env = <<>> /\ fs = <<>> /\ sink = <<>> /\ pc = <<>>
    /\ stdout = <<>> /\ stderr = <<>> /\ status = <<>> /\ io = <<>> /\ heap = <<>>

CodecNext ==
    \/ Encode
    \/ DropEntry
    \/ RetypeEntry
    \/ SwapEntries
    \/ RepeatEntry
    \/ AddUnknown
    \/ Decode

CodecSpec == CodecInit /\ [][CodecNext]_vars

(***************************************************************************)
(* Properties of the process                                               *)
(***************************************************************************)
\* The three lines of the startup output, as the specification states them.
ExpectedLines ==
    <<"RUKH Static Intelligence Service v0.1.0",
      "Author: Volodymyr Stetsenko (Zero2Auditor)",
      "Service ready. Waiting for analysis jobs...">>

\* The first n expected lines, each followed by a line break.
RECURSIVE ExpectedPrefix(_)
ExpectedPrefix(n) ==
    IF n = 0 THEN "" ELSE ExpectedPrefix(n - 1) \o ExpectedLines[n] \o "\n"

ExpectedOutput == ExpectedPrefix(Len(ExpectedLines))

NoWriteFailed(r) == \A k \in DOMAIN io[r] : io[r][k].ok

C2_AlwaysSuccess ==
    \A r \in Runs : pc[r] = "exited" => status[r] = "0"

\* C2, amended: every run eventually terminates, with a successful status
\* when no write to standard output failed and with the panic status
\* otherwise; a run is only ever at one of the lines of main or exited, so
\* in no state is it waiting for a job.
C2_Terminates ==
    /\ \A r \in Runs : <>(pc[r] = "exited")
    /\ [](\A r \in Runs :
            /\ pc[r] \in {"L16", "L17", "L18", "L19", "exited"}
            /\ pc[r] = "exited" =>
                 status[r] = (IF NoWriteFailed(r) THEN "0" ELSE "101"))

C2_Witness ==
    \E r \in Runs :
        /\ stdout[r] = ExpectedOutput
        /\ pc[r] = "exited"
        /\ status[r] = "0"

\* C4: two runs that differ only in their command-line arguments are in the
\* same state whenever they are at the same line: same standard output,
\* same exit status, same operations issued.
C4_ArgumentsIgnored ==
    \A r1, r2 \in Runs :
        (env[r1] = env[r2] /\ fs[r1] = fs[r2] /\ sink[r1] = sink[r2] /\ pc[r1] = pc[r2])
            => /\ stdout[r1] = stdout[r2]
               /\ status[r1] = status[r2]
               /\ io[r1] = io[r2]

C4_Witness ==
    \E r1, r2 \in Runs :
        /\ args[r1] = <<>> /\ args[r2] # <<>>
        /\ env[r1] = env[r2] /\ fs[r1] = fs[r2] /\ sink[r1] = sink[r2]
        /\ pc[r1] = "exited" /\ pc[r2] = "exited"
        /\ stdout[r2] = ExpectedOutput

C6_WriteFailureUnhandled ==
    \A r \in Runs : \A k \in DOMAIN io[r] :
        ~io[r][k].ok =>
            /\ k = Len(io[r])
            /\ \A j \in 1..(k - 1) : io[r][j].ok
            /\ stdout[r] = ExpectedPrefix(k - 1)
            /\ pc[r] = "exited"
            /\ status[r] = "101"
            /\ \A m \in DOMAIN stderr[r] : stderr[r][m].origin = "runtime"

C6_Witness ==
    \E r1, r2 \in Runs :
        /\ Len(io[r1]) = 1 /\ ~io[r1][1].ok
        /\ Len(io[r2]) = Len(ExpectedLines) /\ ~io[r2][Len(ExpectedLines)].ok

\* C9: in every state of a run no Vulnerability value exists: none has been
\* constructed, encoded or decoded.
C9_NoVulnerabilityEver ==
    /\ \A r \in Runs : heap[r] = {}
    /\ stage = "none"
    /\ vuln = <<>> /\ wire = <<>> /\ decoded = <<>>

C9_Witness ==
    \E r1, r2 \in Runs :
        /\ pc[r1] = "exited" /\ status[r1] = "0"
        /\ pc[r2] = "exited" /\ status[r2] = "101"

\* C10: the standard output written so far is always the first n of the
\* three lines, for some n: no line out of order, none twice; and a run has
\* exited with success only when all three are written.
C10_OutputIsPrefix ==
    \A r \in Runs :
        /\ \E n \in 0..Len(ExpectedLines) : stdout[r] = ExpectedPrefix(n)
        /\ status[r] = "0" => stdout[r] = ExpectedOutput

C10_Witness ==
    \E r1, r2 \in Runs :
        /\ pc[r1] = "L18" /\ stdout[r1] = ExpectedPrefix(2)
        /\ status[r2] = "0"

(***************************************************************************)
(* Properties of the codec                                                 *)
(***************************************************************************)
Keys(w) == {w[i].key : i \in DOMAIN w}

\* The entries of w named f.
Named(w, f) == {i \in DOMAIN w : w[i].key = f}

Required == {"severity", "title", "description"}

\* w has each of the three fields exactly once, with a text value.
CarriesThreeTexts(w) ==
    \A f \in Required :
        /\ Cardinality(Named(w, f)) = 1
        /\ \A i \in Named(w, f) : w[i].value.kind = "str"

TextOf(w, f) == w[CHOOSE i \in Named(w, f) : TRUE].value.val

\* C3: decoding the encoding of a value yields a value with the same three
\* fields, whatever their text.
C3_RoundTrip ==
    (stage = "decoded" /\ edits = 0)
        => (decoded.ok /\ decoded.value = {vuln})

C3_Witness ==
    /\ stage = "decoded" /\ edits = 0
    /\ vuln.severity = "" /\ vuln.title = "\"" /\ vuln.description = "\n"
    /\ decoded.ok

\* C7: encoding rejects no value, and a representation that carries the
\* three fields as text decodes to exactly those texts, whatever they are.
C7_NoValidation ==
    /\ stage # "rejected"
    /\ (stage = "decoded" /\ CarriesThreeTexts(wire))
        => /\ decoded.ok
           /\ decoded.value = {[severity    |-> TextOf(wire, "severity"),
                                title       |-> TextOf(wire, "title"),
                                description |-> TextOf(wire, "description")]}

C7_Witness ==
    /\ stage = "decoded"
    /\ CarriesThreeTexts(wire)
    /\ wire[1].key # "severity"
    /\ TextOf(wire, "severity") = ""
    /\ TextOf(wire, "title") = "\n"
    /\ decoded.ok

\* C8: a representation that lacks one of the three fields, or gives one of
\* them a value that is not text, decodes to an error and to no value.
C8_FieldsRequired ==
    (stage = "decoded" /\
     \E f \in Required :
        \/ Named(wire, f) = {}
        \/ \E i \in Named(wire, f) : wire[i].value.kind # "str")
        => (~decoded.ok /\ decoded.value = {})

C8_Witness ==
    /\ stage = "decoded"
    /\ Named(wire, "title") = {}
    /\ Keys(wire) = {"severity", "description"}
    /\ ~decoded.ok

====
